---- MODULE Spec2Model ----
(***************************************************************************)
(* Model of the property-listing content generator:                        *)
(*   generate_description  (orchestrator, remote path or template)         *)
(*   generate_with_groq    (API client: one request per attempt, bounded   *)
(*                          retry on 429 and on timeout)                   *)
(*   generate_fallback     (template generator)                            *)
(* Python values are tagged records [t |-> type, v |-> payload]; strings   *)
(* that the code strips or searches are sequences of tokens, the other     *)
(* strings are TLA+ strings built with \o as the f-strings build them.     *)
(* Temperatures are in hundredths (0.8 is 80, 0.05 is 5).                  *)
(***************************************************************************)
EXTENDS Integers, Sequences, FiniteSets, TLC

\* ------------------------------------------------------------------ bounds
MaxSeed == 9
MaxRetry == 3

\* ------------------------------------------------------- program constants
DefaultRetryCount == 3
NumVariations == 5
BaseTemperature == 80
TemperatureStep == 5
TemperatureLimit == 100
TemperatureWrap == 3
TimeoutPause == 2
BackoffUnit == 2
GroupSize == 1000

GroqProvider == "Groq Premium (Free)"
TemplateProvider == "Template (No API)"

\* ----------------------------------------------------------- Python values
None == [t |-> "None", v |-> <<>>]
PyStr(s) == [t |-> "str", v |-> s]
PyDict(d) == [t |-> "dict", v |-> d]
PyList(l) == [t |-> "list", v |-> l]
PyInt(n) == [t |-> "int", v |-> n]

\* Python truth value of an object (if result: / and api_key)
Truthy(x) ==
    CASE x.t = "None" -> FALSE
      [] x.t = "str" -> x.v # <<>>
      [] x.t = "list" -> x.v # <<>>
      [] x.t = "dict" -> DOMAIN x.v # {}
      [] x.t = "int" -> x.v # 0
      [] OTHER -> TRUE

\* ------------------------------------------------------- string operations
Whitespace == {" ", "\n"}

RECURSIVE LStrip(_)
LStrip(s) == IF s # <<>> /\ Head(s) \in Whitespace THEN LStrip(Tail(s)) ELSE s

RECURSIVE RStrip(_)
RStrip(s) ==
    IF s # <<>> /\ s[Len(s)] \in Whitespace THEN RStrip(SubSeq(s, 1, Len(s) - 1)) ELSE s

\* str.strip()
Strip(s) == RStrip(LStrip(s))

\* the tokens of a string joined back into one string
RECURSIVE Join(_)
Join(s) == IF s = <<>> THEN "" ELSE Head(s) \o Join(Tail(s))

\* str.title() on the vocabulary of the model
Title(s) ==
    CASE s = "flat" -> "Flat"
      [] s = "villa" -> "Villa"
      [] s = "semi-furnished" -> "Semi-Furnished"
      [] s = "fully furnished" -> "Fully Furnished"
      [] OTHER -> s

Pad3(n) == IF n < 10 THEN "00" \o ToString(n) ELSE IF n < 100 THEN "0" \o ToString(n) ELSE ToString(n)

\* format(n, ",") of a non-negative integer
RECURSIVE Comma(_)
Comma(n) ==
    IF n < GroupSize THEN ToString(n)
    ELSE Comma(n \div GroupSize) \o "," \o Pad3(n % GroupSize)

\* -------------------------------------------------------- property records
FallbackKeys ==
    {"bhk", "property_type", "locality", "city", "area_sqft", "rent_amount",
     "furnishing_status", "deposit_amount", "preferred_tenants", "available_from"}

\* keys generate_with_groq subscripts while it builds the prompt
PromptKeys == FallbackKeys \cup {"amenities"}

FormRecord ==
    [property_type |-> "flat", bhk |-> "2", area_sqft |-> 1000, city |-> "Mumbai",
     locality |-> "Andheri West", furnishing_status |-> "semi-furnished",
     rent_amount |-> 30000, deposit_amount |-> 50000,
     available_from |-> "2024-01-15", preferred_tenants |-> "Family",
     amenities |-> <<>>, rough_description |-> <<>>]

NotesRecord ==
    [property_type |-> "villa", bhk |-> "3", area_sqft |-> 2400, city |-> "Pune",
     locality |-> "Baner", furnishing_status |-> "fully furnished",
     rent_amount |-> 1250000, deposit_amount |-> 900,
     available_from |-> "2025-03-01", preferred_tenants |-> "Family, Bachelors",
     amenities |-> <<"Lift", "Parking">>,
     rough_description |-> <<" ", "Sea view", "\n">>]

\* the ten required fields and nothing else
BareRecord ==
    [property_type |-> "flat", bhk |-> "1", area_sqft |-> 450, city |-> "Delhi",
     locality |-> "Saket", furnishing_status |-> "unfurnished",
     rent_amount |-> 8000, deposit_amount |-> 0,
     available_from |-> "2024-06-30", preferred_tenants |-> "Any"]

\* a record that lacks a required field
NoDepositRecord ==
    [property_type |-> "flat", bhk |-> "2", area_sqft |-> 1000, city |-> "Mumbai",
     locality |-> "Andheri West", furnishing_status |-> "semi-furnished",
     rent_amount |-> 30000,
     available_from |-> "2024-01-15", preferred_tenants |-> "Family",
     amenities |-> <<>>, rough_description |-> <<>>]

PropertyRecords == {FormRecord, NotesRecord, BareRecord, NoDepositRecord}

HasRequiredFields(pd) == FallbackKeys \subseteq DOMAIN pd

\* dict.get(key, default)
Get(pd, key, default) == IF key \in DOMAIN pd THEN pd[key] ELSE default

\* --------------------------------------------------------- generate_fallback
ContentKeys ==
    {"title", "teaser_text", "full_description", "bullet_points", "seo_keywords",
     "meta_title", "meta_description"}

\* lines 483-489 with the last entry dropped
FallbackBullets_Four(pd) ==
    << pd.bhk \o " BHK configuration with " \o ToString(pd.area_sqft) \o " sqft carpet area",
       Title(pd.furnishing_status) \o " furnished with modern fittings",
       "Monthly rent: Rs" \o Comma(pd.rent_amount) \o " | Deposit: Rs" \o Comma(pd.deposit_amount),
       "Preferred for: " \o pd.preferred_tenants >>

\* lines 483-489
FallbackBullets(pd) ==
    LET bhk == pd.bhk
        area == ToString(pd.area_sqft)
        rent == Comma(pd.rent_amount)
        furnishing == Title(pd.furnishing_status)
    IN << bhk \o " BHK configuration with " \o area \o " sqft carpet area",
          furnishing \o " furnished with modern fittings",
          "Monthly rent: Rs" \o rent \o " | Deposit: Rs" \o Comma(pd.deposit_amount),
          "Preferred for: " \o pd.preferred_tenants,
          "Available from: " \o pd.available_from >>

\* lines 490-496 with the last entry dropped
FallbackKeywords_Four(pd) ==
    << pd.bhk \o " bhk " \o pd.city,
       pd.locality \o " rental",
       Title(pd.property_type) \o " for rent " \o pd.city,
       Title(pd.furnishing_status) \o " flat " \o pd.locality >>

\* lines 490-496
FallbackKeywords(pd) ==
    LET bhk == pd.bhk
        prop_type == Title(pd.property_type)
        locality == pd.locality
        city == pd.city
        furnishing == Title(pd.furnishing_status)
    IN << bhk \o " bhk " \o city,
          locality \o " rental",
          prop_type \o " for rent " \o city,
          furnishing \o " flat " \o locality,
          "rent " \o bhk \o "bhk " \o city >>

generate_fallback(pd) ==
    LET bhk == pd.bhk
        prop_type == Title(pd.property_type)
        locality == pd.locality
        city == pd.city
        area == ToString(pd.area_sqft)
        rent == Comma(pd.rent_amount)
        furnishing == Title(pd.furnishing_status)
        rough_desc == Join(Strip(Get(pd, "rough_description", <<>>)))
        extra_info == IF rough_desc # "" THEN " " \o rough_desc ELSE ""
    IN PyDict(
        [title |-> "Spacious " \o bhk \o " BHK " \o prop_type \o " for Rent in " \o locality,
         teaser_text |-> "Well-maintained " \o bhk \o " BHK " \o prop_type \o " in prime "
                          \o locality \o " location",
         full_description |-> "Looking for a comfortable home? This beautiful " \o bhk
                          \o " BHK " \o prop_type \o " in " \o locality \o ", " \o city
                          \o " is perfect for you. Spread across " \o area \o " sqft, this "
                          \o furnishing \o " furnished property offers great value at Rs"
                          \o rent \o "/month. Located in a well-connected area with easy access to essential amenities."
                          \o extra_info,
         bullet_points |-> FallbackBullets(pd),
         seo_keywords |-> FallbackKeywords(pd),
         meta_title |-> bhk \o " BHK " \o prop_type \o " for Rent in " \o locality \o ", " \o city,
         meta_description |-> "Rent this spacious " \o bhk \o " BHK " \o prop_type \o " in "
                          \o locality \o ", " \o city \o ". " \o area \o " sqft, " \o furnishing
                          \o " furnished. Rs" \o rent \o "/month. Available now!"])

\* equality of two Python values (the tags first: payloads of different types
\* are never compared)
PyEq(a, b) == a.t = b.t /\ a.v = b.v

\* ------------------------------------------------- remote response contents
\* the three-backquote markdown fence, as one token
Fence == "<fence>"
JsonTag == "json"

\* JSON documents the model can answer with, as one token of text each
GoodDoc == "{7 keys, 5 bullets, 5 keywords}"
ShortDoc == "{7 keys, 3 bullets, 4 keywords}"
PartialDoc == "{title only}"
EmptyObjectDoc == "{}"
NullDoc == "null"
ZeroDoc == "0"
ListDoc == "[1]"
GarbageText == "Here is your listing:"

GoodValue ==
    PyDict([title |-> "Sunlit Home", teaser_text |-> "Move in now",
            full_description |-> "A bright home.",
            bullet_points |-> <<"b1", "b2", "b3", "b4", "b5">>,
            seo_keywords |-> <<"k1", "k2", "k3", "k4", "k5">>,
            meta_title |-> "Sunlit Home", meta_description |-> "Rent it today"])

ShortValue ==
    PyDict([title |-> "Sunlit Home", teaser_text |-> "Move in now",
            full_description |-> "A bright home.",
            bullet_points |-> <<"b1", "b2", "b3">>,
            seo_keywords |-> <<"k1", "k2", "k3", "k4">>,
            meta_title |-> "Sunlit Home", meta_description |-> "Rent it today"])

PartialValue == PyDict([title |-> "Sunlit Home"])

\* a JSON document whose title string holds a markdown fence, in three tokens:
\* the text before the fence, the fence, the text after it
TickHead == "{7 keys, 5 bullets, 5 keywords, title: Use "
TickTail == " marks}"

TickValue ==
    PyDict([title |-> "Use <fence> marks", teaser_text |-> "Move in now",
            full_description |-> "A bright home.",
            bullet_points |-> <<"b1", "b2", "b3", "b4", "b5">>,
            seo_keywords |-> <<"k1", "k2", "k3", "k4", "k5">>,
            meta_title |-> "Sunlit Home", meta_description |-> "Rent it today"])

\* the same document with the fence deleted from the title
TickStrippedValue ==
    PyDict([title |-> "Use  marks", teaser_text |-> "Move in now",
            full_description |-> "A bright home.",
            bullet_points |-> <<"b1", "b2", "b3", "b4", "b5">>,
            seo_keywords |-> <<"k1", "k2", "k3", "k4", "k5">>,
            meta_title |-> "Sunlit Home", meta_description |-> "Rent it today"])

JsonDocs == {GoodDoc, ShortDoc, PartialDoc, EmptyObjectDoc, NullDoc, ZeroDoc, ListDoc}

DocValue(d) ==
    CASE d = GoodDoc -> GoodValue
      [] d = ShortDoc -> ShortValue
      [] d = PartialDoc -> PartialValue
      [] d = EmptyObjectDoc -> PyDict(<<>>)
      [] d = NullDoc -> None
      [] d = ZeroDoc -> PyInt(0)
      [] d = ListDoc -> PyList(<<1>>)

\* the token sequences that are one JSON document
JsonTexts ==
    {<<d>> : d \in JsonDocs} \cup {<<TickHead, Fence, TickTail>>, <<TickHead, TickTail>>}

TextValue(text) ==
    CASE text = <<TickHead, Fence, TickTail>> -> TickValue
      [] text = <<TickHead, TickTail>> -> TickStrippedValue
      [] OTHER -> DocValue(text[1])

\* message contents the endpoint can answer with on HTTP 200
Contents ==
    {<<d>> : d \in JsonDocs}
    \cup {<<Fence, JsonTag, "\n", GoodDoc, "\n", Fence>>,
          <<Fence, "\n", GoodDoc, "\n", Fence, "\n">>,
          <<"\n", GoodDoc, " ">>,
          <<GarbageText>>,
          <<GarbageText, GoodDoc>>,
          <<TickHead, Fence, TickTail>>,
          <<Fence, JsonTag, "\n", TickHead, Fence, TickTail, "\n", Fence>>,
          <<>>}

\* content.startswith(prefix)
StartsWith(s, prefix) == Len(s) >= Len(prefix) /\ SubSeq(s, 1, Len(prefix)) = prefix

\* content.replace(old, empty string) for a non-empty old
RECURSIVE Remove(_, _)
Remove(s, old) ==
    IF s = <<>> THEN <<>>
    ELSE IF StartsWith(s, old) THEN Remove(SubSeq(s, Len(old) + 1, Len(s)), old)
    ELSE <<Head(s)>> \o Remove(Tail(s), old)

\* lines 403-409: strip, then clean markdown formatting if present
CleanContent(raw) ==
    LET content == Strip(raw)
    IN IF StartsWith(content, <<Fence, JsonTag>>)
       THEN Strip(Remove(Remove(content, <<Fence, JsonTag>>), <<Fence>>))
       ELSE IF StartsWith(content, <<Fence>>)
       THEN Strip(Remove(content, <<Fence>>))
       ELSE content

\* json.loads: the text is one JSON document, surrounded by whitespace at most
JsonParses(content) == Strip(content) \in JsonTexts
json_loads(content) == TextValue(Strip(content))

\* ------------------------------------------------------------- temperature
\* lines 369-372 without the wrap of lines 371-372
Temperature_NoWrap(variation_seed) == BaseTemperature + variation_seed * TemperatureStep

\* lines 369-372, in hundredths
Temperature(variation_seed) ==
    LET temperature == BaseTemperature + variation_seed * TemperatureStep
    IN IF temperature > TemperatureLimit
       THEN BaseTemperature + (variation_seed % TemperatureWrap) * TemperatureStep
       ELSE temperature

\* line 242: index of the selected variation preset
VariationIndex(variation_seed) == variation_seed % NumVariations

\* ---------------------------------------------------------- remote outcomes
\* what one requests.post can produce: a response (status, body, content of
\* the first choice), a timeout, or another transport fault
Response(status, body, content) ==
    [kind |-> "response", status |-> status, body |-> body, content |-> content]
TimeoutOutcome == [kind |-> "timeout", status |-> 0, body |-> "none", content |-> <<>>]
FaultOutcome == [kind |-> "fault", status |-> 0, body |-> "none", content |-> <<>>]

Outcomes ==
    {Response(200, "json", c) : c \in Contents}
    \cup {Response(200, "not_json", <<>>), Response(200, "no_choices", <<>>),
          Response(429, "json", <<>>), Response(401, "json", <<>>),
          Response(400, "json", <<>>), Response(400, "not_json", <<>>),
          Response(500, "json", <<>>), Response(404, "not_json", <<>>)}
    \cup {TimeoutOutcome, FaultOutcome}

\* the branch of lines 401-459 that handles an outcome
Classify(o) ==
    CASE o.kind = "timeout" -> "timeout"
      [] o.kind = "fault" -> "unexpected"
      [] o.status = 200 ->
            IF o.body = "not_json" THEN "parse_error"
            ELSE IF o.body = "no_choices" THEN "unexpected"
            ELSE IF JsonParses(CleanContent(o.content)) THEN "success"
            ELSE "parse_error"
      [] o.status = 429 -> "rate_limit"
      [] o.status = 401 -> "auth"
      [] o.status = 400 -> IF o.body = "not_json" THEN "parse_error" ELSE "bad_request"
      [] OTHER -> "api_error"

\* lines 416-449 with a retry arm in the 401 branch too
Retried_Auth(class) == class \in {"rate_limit", "timeout", "auth"}

\* lines 416-455 with a retry arm in the JSONDecodeError handler too
Retried_Parse(class) == class \in {"rate_limit", "timeout", "parse_error"}

\* lines 416-449 with a retry arm in the other-status branch too
Retried_ApiError(class) == class \in {"rate_limit", "timeout", "api_error"}

\* the branches that hold a retry (continue) arm: lines 417 and 443
Retried(class) == class \in {"rate_limit", "timeout"}

\* lines 417 and 443 testing attempt < retry_count
HasAttemptsLeft_OffByOne(attempt, retry_count) == attempt < retry_count

\* attempt < retry_count - 1
HasAttemptsLeft(attempt, retry_count) == attempt < retry_count - 1

\* line 418 with a fixed wait
RateLimitWait_Fixed(attempt) == BackoffUnit

\* line 418
RateLimitWait(attempt) == (attempt + 1) * BackoffUnit

\* line 445 with the backoff of the 429 branch
TimeoutWait_Linear(attempt) == (attempt + 1) * TimeoutPause

\* line 445
TimeoutWait(attempt) == TimeoutPause

Wait(class, attempt) ==
    IF class = "rate_limit" THEN RateLimitWait(attempt) ELSE TimeoutWait(attempt)

\* notices shown when a branch retries / gives up
RetryNotices(class) ==
    IF class = "rate_limit" THEN <<"warning:rate_limit_wait">> ELSE <<"warning:timeout_retry">>

\* lines 423-458 with the st.error of the timeout branch (line 448) left out
FinalNotices_SilentTimeout(class) ==
    CASE class = "success" -> <<>>
      [] class = "rate_limit" -> <<"error:rate_limit">>
      [] class = "auth" -> <<"error:invalid_key", "info:get_key">>
      [] class = "bad_request" -> <<"error:bad_request">>
      [] class = "api_error" -> <<"error:api_error", "expander:details">>
      [] class = "timeout" -> <<>>
      [] class = "parse_error" -> <<"error:invalid_json", "expander:response">>
      [] OTHER -> <<"error:unexpected">>

FinalNotices(class) ==
    CASE class = "success" -> <<>>
      [] class = "rate_limit" -> <<"error:rate_limit">>
      [] class = "auth" -> <<"error:invalid_key", "info:get_key">>
      [] class = "bad_request" -> <<"error:bad_request">>
      [] class = "api_error" -> <<"error:api_error", "expander:details">>
      [] class = "timeout" -> <<"error:timeout">>
      [] class = "parse_error" -> <<"error:invalid_json", "expander:response">>
      [] OTHER -> <<"error:unexpected">>

InfoTemplate == "info:template"

\* an exception raised in the try block before the request is sent:
\* api_key.strip() on a non-string, or a subscript of a missing key
LocalFault(pd, key) == key.t # "str" \/ ~(PromptKeys \subseteq DOMAIN pd)

\* line 503 without the credential test
UsesRemote_ProviderOnly(provider, key) == provider = GroqProvider

\* line 503
UsesRemote(provider, key) == provider = GroqProvider /\ Truthy(key)

\* lines 508-510: the template path; a missing required key raises KeyError
Fallback(pd, ns) ==
    IF HasRequiredFields(pd)
    THEN [pc |-> "done", result |-> generate_fallback(pd), notices |-> Append(ns, InfoTemplate)]
    ELSE [pc |-> "raised", result |-> None, notices |-> Append(ns, InfoTemplate)]

\* lines 505-510 without the template path
Orchestrate_NoFallback(pd, r, ns) == [pc |-> "done", result |-> r, notices |-> ns]

\* lines 505-510 testing "is not None" in place of the truth value
Orchestrate_NotNone(pd, r, ns) ==
    IF r.t # "None" THEN [pc |-> "done", result |-> r, notices |-> ns]
    ELSE Fallback(pd, ns)

\* lines 505-510: what generate_description does with generate_with_groq's value
Orchestrate(pd, r, ns) ==
    IF Truthy(r) THEN [pc |-> "done", result |-> r, notices |-> ns]
    ELSE Fallback(pd, ns)

\* the return of generate_with_groq, to the orchestrator or to a direct caller
GroqReturn(who, pd, r, ns) ==
    IF who = "generate_description" THEN Orchestrate(pd, r, ns)
    ELSE [pc |-> "done", result |-> r, notices |-> ns]

\* ------------------------------------------------------------------- state
\* the call in progress: generate_description or generate_with_groq
VARIABLES pc, caller, property_data, api_provider, api_key, variation_seed,
          retry_count, attempt, attempts, notices, result

\* memo: the outputs generate_fallback has returned so far, by record
\* parser: an InteractiveParser and the batch it last processed
\* session_state: st.session_state of the description generator page
\* ui: the last click on the page and what the script did with it
VARIABLES memo, parser, session_state, ui

callVars == <<pc, caller, property_data, api_provider, api_key, variation_seed,
              retry_count, attempt, attempts, notices, result>>

vars == <<pc, caller, property_data, api_provider, api_key, variation_seed,
          retry_count, attempt, attempts, notices, result,
          memo, parser, session_state, ui>>

\* InteractiveParser.__init__ (line 125), with no batch processed yet
NewParser ==
    [errors |-> <<>>, properties |-> <<>>, origin |-> <<>>,
     df |-> [columns |-> {}, rows |-> <<>>], before |-> <<>>,
     reads |-> 0, last |-> "__init__"]

\* main(), lines 518-523
NewSession == [generated_result |-> None, property_data |-> None, generation_count |-> 0]

\* no button clicked yet; used lists the preset index of every generation
\* since the last Generate click, made holds the seed and the record passed
\* to the generation whose result is in the session
NoClick ==
    [click |-> "none", city |-> "", locality |-> "", status |-> "none",
     used |-> <<>>, made |-> None]

Providers == {GroqProvider, TemplateProvider}

ApiKeys == {None, PyStr(<<>>), PyStr(<<" ", " ">>), PyStr(<<" ", "gsk_1", "\n">>)}

Seeds == 0..MaxSeed

RetryCounts == 0..MaxRetry

Init ==
    /\ pc = "idle"
    /\ caller = "none"
    /\ property_data = FormRecord
    /\ api_provider = TemplateProvider
    /\ api_key = None
    /\ variation_seed = 0
    /\ retry_count = 0
    /\ attempt = 0
    /\ attempts = <<>>
    /\ notices = <<>>
    /\ result = None
    /\ memo = <<>>
    /\ parser = NewParser
    /\ session_state = NewSession
    /\ ui = NoClick

\* entry of generate_with_groq: the for loop of line 244 runs or is empty
EnterGroq(who, pd, n) ==
    IF n > 0
    THEN /\ pc' = "groq"
         /\ result' = None
         /\ notices' = <<>>
    ELSE LET ret == GroqReturn(who, pd, None, <<>>)
         IN /\ pc' = ret.pc
            /\ result' = ret.result
            /\ notices' = ret.notices

\* generate_description(property_data, api_provider, api_key, variation_seed),
\* up to its return or to the first request
StartDescription(pd, provider, key, seed) ==
    /\ caller' = "generate_description"
    /\ property_data' = pd
    /\ api_provider' = provider
    /\ api_key' = key
    /\ variation_seed' = seed
    /\ retry_count' = DefaultRetryCount
    /\ attempt' = 0
    /\ attempts' = <<>>
    /\ IF UsesRemote(provider, key)
       THEN EnterGroq("generate_description", pd, DefaultRetryCount)
       ELSE LET ret == Fallback(pd, <<>>)
            IN /\ pc' = ret.pc
               /\ result' = ret.result
               /\ notices' = ret.notices

\* a call of generate_description from outside the page
GenerateDescription(pd, provider, key, seed) ==
    /\ pc = "idle"
    /\ StartDescription(pd, provider, key, seed)
    /\ UNCHANGED <<memo, parser, session_state, ui>>

\* a direct call generate_with_groq(property_data, api_key, retry_count, variation_seed)
GenerateWithGroq(pd, key, n, seed) ==
    /\ pc = "idle"
    /\ caller' = "generate_with_groq"
    /\ property_data' = pd
    /\ api_provider' = GroqProvider
    /\ api_key' = key
    /\ variation_seed' = seed
    /\ retry_count' = n
    /\ attempt' = 0
    /\ attempts' = <<>>
    /\ EnterGroq("generate_with_groq", pd, n)
    /\ UNCHANGED <<memo, parser, session_state, ui>>

\* one iteration of the loop in which the try block raises before the request
AttemptLocalFault ==
    /\ pc = "groq"
    /\ LocalFault(property_data, api_key)
    /\ LET ret == GroqReturn(caller, property_data, None, notices \o FinalNotices("unexpected"))
       IN /\ pc' = ret.pc
          /\ result' = ret.result
          /\ notices' = ret.notices
    /\ attempts' = Append(attempts, [outcome |-> FaultOutcome, class |-> "unexpected",
                                      posted |-> FALSE, bearer |-> <<>>,
                                      variation |-> VariationIndex(variation_seed),
                                      temperature |-> 0, slept |-> 0])
    /\ UNCHANGED <<caller, property_data, api_provider, api_key, variation_seed,
                   retry_count, attempt>>
    /\ UNCHANGED <<memo, parser, session_state, ui>>

\* one iteration of the loop that sends the request and handles outcome o
RequestStep(o) ==
    /\ pc = "groq"
    /\ ~LocalFault(property_data, api_key)
    /\ LET class == Classify(o)
           again == Retried(class) /\ HasAttemptsLeft(attempt, retry_count)
           slept == IF again THEN Wait(class, attempt) ELSE 0
           entry == [outcome |-> o, class |-> class, posted |-> TRUE,
                     bearer |-> Strip(api_key.v),
                     variation |-> VariationIndex(variation_seed),
                     temperature |-> Temperature(variation_seed), slept |-> slept]
       IN /\ attempts' = Append(attempts, entry)
          /\ IF again /\ attempt + 1 < retry_count
             THEN /\ attempt' = attempt + 1
                  /\ notices' = notices \o RetryNotices(class)
                  /\ UNCHANGED <<pc, result>>
             ELSE IF again
             THEN \* continue on the last iteration: the loop ends, line 461
                  LET ret == GroqReturn(caller, property_data, None,
                                        notices \o RetryNotices(class))
                  IN /\ pc' = ret.pc
                     /\ result' = ret.result
                     /\ notices' = ret.notices
                     /\ UNCHANGED attempt
             ELSE LET value == IF class = "success" THEN json_loads(CleanContent(o.content))
                                ELSE None
                      ret == GroqReturn(caller, property_data, value,
                                        notices \o FinalNotices(class))
                  IN /\ pc' = ret.pc
                     /\ result' = ret.result
                     /\ notices' = ret.notices
                     /\ UNCHANGED attempt
    /\ UNCHANGED <<caller, property_data, api_provider, api_key, variation_seed,
                   retry_count>>

\* an iteration of a call made from outside the page
AttemptRequest(o) ==
    /\ RequestStep(o)
    /\ UNCHANGED <<memo, parser, session_state, ui>>

\* the call variables of a call that is over
ClearCall ==
    /\ pc' = "idle"
    /\ caller' = "none"
    /\ property_data' = FormRecord
    /\ api_provider' = TemplateProvider
    /\ api_key' = None
    /\ variation_seed' = 0
    /\ retry_count' = 0
    /\ attempt' = 0
    /\ attempts' = <<>>
    /\ notices' = <<>>
    /\ result' = None

\* the caller takes the value (or the exception) and the call is over
ReturnToCaller ==
    /\ pc \in {"done", "raised"}
    /\ caller \in {"generate_description", "generate_with_groq"}
    /\ ClearCall
    /\ UNCHANGED <<memo, parser, session_state, ui>>

Next ==
    \/ \E pd \in PropertyRecords, provider \in Providers, key \in ApiKeys, seed \in Seeds :
          GenerateDescription(pd, provider, key, seed)
    \/ \E pd \in PropertyRecords, key \in ApiKeys, n \in RetryCounts, seed \in Seeds :
          GenerateWithGroq(pd, key, n, seed)
    \/ AttemptLocalFault
    \/ \E o \in Outcomes : AttemptRequest(o)
    \/ ReturnToCaller

Spec == Init /\ [][Next]_vars

\* ------------------------------------------------------------------- types
TypeOK ==
    /\ pc \in {"idle", "groq", "done", "raised"}
    /\ caller \in {"none", "generate_description", "generate_with_groq"}
    /\ property_data \in PropertyRecords
    /\ api_provider \in Providers
    /\ variation_seed \in Seeds
    /\ retry_count \in RetryCounts
    /\ attempt \in 0..MaxRetry
    /\ Len(attempts) <= MaxRetry

\* ----------------------------------------------------- views of the state
ByOrchestrator == caller = "generate_description"
Returned == pc = "done"
LastAttempt == attempts[Len(attempts)]

\* the value generate_with_groq parsed out of the content of attempt i
ParsedAt(i) == json_loads(CleanContent(attempts[i].outcome.content))

\* the final attempt got HTTP 200 with content that parses as JSON
RemoteSucceeded ==
    /\ attempts # <<>>
    /\ LastAttempt.posted
    /\ LastAttempt.outcome.kind = "response"
    /\ LastAttempt.outcome.status = 200
    /\ LastAttempt.outcome.body = "json"
    /\ JsonParses(CleanContent(LastAttempt.outcome.content))

NonEmptyCredential == api_key.t = "str" /\ api_key.v # <<>>

\* ---------------------------------------------------------------------- C1
\* C1: for every property record carrying the required fields, whatever the
\* provider, the credential and the remote outcomes, generate_description
\* ends within its attempt budget, never raises to its caller and never
\* returns None.
C1_NeverFails ==
    (ByOrchestrator /\ HasRequiredFields(property_data)) =>
        /\ pc # "raised"
        /\ Len(attempts) <= retry_count
        /\ (pc = "groq" => attempt = Len(attempts) /\ attempt < retry_count)
        /\ (Returned => result.t # "None")

\* three timeouts in a row and the call still returned a value
C1_Witness ==
    /\ ByOrchestrator /\ Returned /\ HasRequiredFields(property_data)
    /\ Len(attempts) = DefaultRetryCount
    /\ \A i \in DOMAIN attempts : attempts[i].outcome.kind = "timeout"
    /\ result.t = "dict"

\* ---------------------------------------------------------------------- C2
\* C2 (as claimed): generate_description returns the parsed value unchanged
\* whenever the API client got HTTP 200 with content that parses as JSON, and
\* generate_fallback(property_data) whenever the client failed.
C2_Original ==
    (ByOrchestrator /\ Returned) =>
        IF RemoteSucceeded THEN PyEq(result, ParsedAt(Len(attempts)))
        ELSE PyEq(result, generate_fallback(property_data))

\* C2 (amended): generate_description returns the parsed value unchanged when
\* the API client succeeded with a parsed value that is true in a Boolean
\* context, and exactly generate_fallback(property_data) in every other case
\* (a failure, or a parsed value that is false: {}, [], null, 0); never a
\* mixture.
C2_OneOrTheOther ==
    (ByOrchestrator /\ Returned) =>
        IF RemoteSucceeded /\ Truthy(ParsedAt(Len(attempts)))
        THEN PyEq(result, ParsedAt(Len(attempts)))
        ELSE PyEq(result, generate_fallback(property_data))

\* the client parsed an empty object and the template output was returned
C2_Witness ==
    /\ ByOrchestrator /\ Returned /\ RemoteSucceeded
    /\ PyEq(ParsedAt(Len(attempts)), PyDict(<<>>))
    /\ PyEq(result, generate_fallback(property_data))

\* ---------------------------------------------------------------------- C3
\* C3: generate_description sends a request only if the provider is the remote
\* provider and a non-empty credential was supplied; otherwise it sends no
\* request, never enters the retry loop and returns the template output.
C3_RemoteOnlyWithCredential ==
    ByOrchestrator =>
        /\ (\E i \in DOMAIN attempts : attempts[i].posted)
              => (api_provider = GroqProvider /\ NonEmptyCredential)
        /\ ~(api_provider = GroqProvider /\ NonEmptyCredential) =>
              /\ pc # "groq"
              /\ attempts = <<>>
              /\ notices = <<InfoTemplate>>
              /\ (Returned => PyEq(result, generate_fallback(property_data)))

\* the remote provider was chosen with an empty credential: template, no request
C3_Witness ==
    /\ ByOrchestrator /\ Returned
    /\ api_provider = GroqProvider
    /\ api_key.t = "str" /\ api_key.v = <<>>
    /\ attempts = <<>>
    /\ PyEq(result, generate_fallback(property_data))

\* ------------------------------------------------ classes of remote outcome
IsRateLimit(o) == o.kind = "response" /\ o.status = 429
IsTimeout(o) == o.kind = "timeout"
IsAuth(o) == o.kind = "response" /\ o.status = 401
IsBadRequest(o) == o.kind = "response" /\ o.status = 400
IsOtherStatus(o) == o.kind = "response" /\ o.status \notin {200, 429, 401, 400}
IsTransportFault(o) == o.kind = "fault"
IsUnparsable200(o) ==
    /\ o.kind = "response" /\ o.status = 200 /\ o.body = "json"
    /\ ~JsonParses(CleanContent(o.content))

\* attempt i (1-based in the log, i - 1 in the code) was followed by a request
RetriedAfter(i) ==
    \/ Len(attempts) > i /\ attempts[i + 1].posted
    \/ Len(attempts) = i /\ pc = "groq" /\ attempt = i

\* attempt i ended generate_with_groq with no content and no pause
EndedAt(i) ==
    /\ attempts[i].slept = 0
    /\ Len(attempts) = i
    /\ pc \in {"done", "raised"}
    /\ (caller = "generate_with_groq" => PyEq(result, None))
    /\ (ByOrchestrator /\ Returned => PyEq(result, generate_fallback(property_data)))

\* ---------------------------------------------------------------------- C4
\* C4: a 429 on attempt index i of a call with retry_count n makes the client
\* sleep (i + 1) * 2 seconds and retry when i < n - 1, and end with no content
\* and no sleep when i = n - 1; three 429 answers to generate_description give
\* 3 requests, sleeps of 2s and 4s, and the template output.
C4_RateLimitBackoff ==
    /\ \A i \in DOMAIN attempts :
          (attempts[i].posted /\ IsRateLimit(attempts[i].outcome)) =>
              IF i - 1 < retry_count - 1
              THEN attempts[i].slept = ((i - 1) + 1) * 2 /\ RetriedAfter(i)
              ELSE EndedAt(i)
    /\ ( /\ ByOrchestrator /\ pc \in {"done", "raised"}
         /\ attempts # <<>>
         /\ \A i \in DOMAIN attempts : IsRateLimit(attempts[i].outcome) )
       => /\ Len(attempts) = 3
          /\ \A i \in DOMAIN attempts : attempts[i].posted
          /\ [i \in DOMAIN attempts |-> attempts[i].slept] = <<2, 4, 0>>
          /\ (Returned => PyEq(result, generate_fallback(property_data)))

\* generate_description got 429 three times and returned the template output
C4_Witness ==
    /\ ByOrchestrator /\ Returned
    /\ Len(attempts) = 3
    /\ \A i \in DOMAIN attempts : IsRateLimit(attempts[i].outcome)
    /\ [i \in DOMAIN attempts |-> attempts[i].slept] = <<2, 4, 0>>
    /\ PyEq(result, generate_fallback(property_data))

\* ---------------------------------------------------------------------- C5
\* C5: a timeout on attempt index i of a call with retry_count n makes the
\* client pause 2 seconds, whatever i, and retry when i < n - 1, and end with
\* no content and no pause when i = n - 1; n timeouts in a row are n requests
\* and n - 1 pauses of 2 seconds.
C5_TimeoutFixedPause ==
    /\ \A i \in DOMAIN attempts :
          (attempts[i].posted /\ IsTimeout(attempts[i].outcome)) =>
              IF i - 1 < retry_count - 1
              THEN attempts[i].slept = 2 /\ RetriedAfter(i)
              ELSE EndedAt(i)
    /\ ( /\ pc \in {"done", "raised"}
         /\ attempts # <<>>
         /\ \A i \in DOMAIN attempts : attempts[i].posted /\ IsTimeout(attempts[i].outcome) )
       => /\ Len(attempts) = retry_count
          /\ Cardinality({i \in DOMAIN attempts : attempts[i].slept = 2}) = retry_count - 1
          /\ attempts[retry_count].slept = 0

\* a direct call with three attempts timed out three times
C5_Witness ==
    /\ caller = "generate_with_groq" /\ Returned
    /\ retry_count = 3
    /\ Len(attempts) = 3
    /\ \A i \in DOMAIN attempts : attempts[i].posted /\ IsTimeout(attempts[i].outcome)
    /\ [i \in DOMAIN attempts |-> attempts[i].slept] = <<2, 2, 0>>
    /\ PyEq(result, None)

\* ---------------------------------------------------------------------- C6
\* C6: a 401, a 400, any other status that is neither 200 nor 429, or a
\* transport fault that is not a timeout ends the client call on the attempt
\* where it occurs, with no content, no sleep and no further request.
C6_NoRetryOnFatalStatus ==
    \A i \in DOMAIN attempts :
        ( /\ attempts[i].posted
          /\ \/ IsAuth(attempts[i].outcome)
             \/ IsBadRequest(attempts[i].outcome)
             \/ IsOtherStatus(attempts[i].outcome)
             \/ IsTransportFault(attempts[i].outcome) )
        => EndedAt(i)

\* a 401 on the second of three attempts ended the call
C6_Witness ==
    /\ caller = "generate_with_groq" /\ Returned
    /\ retry_count = 3
    /\ Len(attempts) = 2
    /\ IsRateLimit(attempts[1].outcome)
    /\ attempts[2].posted /\ IsAuth(attempts[2].outcome)
    /\ PyEq(result, None)

\* ---------------------------------------------------------------------- C7
\* C7: an HTTP 200 whose content does not parse as JSON after fence stripping
\* ends the client call on that attempt with no content, no sleep and no
\* further request, even when attempts remain.
C7_NoRetryOnParseFailure ==
    \A i \in DOMAIN attempts :
        (attempts[i].posted /\ IsUnparsable200(attempts[i].outcome)) =>
            /\ EndedAt(i)
            /\ "error:invalid_json" \in {notices[k] : k \in DOMAIN notices}

\* unparsable content on the first of three attempts ended the call
C7_Witness ==
    /\ caller = "generate_with_groq" /\ Returned
    /\ retry_count = 3
    /\ Len(attempts) = 1
    /\ attempts[1].posted /\ IsUnparsable200(attempts[1].outcome)
    /\ attempts[1].outcome.content = <<GarbageText>>
    /\ PyEq(result, None)

\* ---------------------------------------------------------------------- C8
\* C8 (as claimed): a rate-limit, timeout, other-status or response-parse
\* failure on an attempt that is not the last one is followed by a retry.
C8_Original ==
    \A i \in DOMAIN attempts :
        ( /\ attempts[i].posted
          /\ i - 1 < retry_count - 1
          /\ \/ IsRateLimit(attempts[i].outcome)
             \/ IsTimeout(attempts[i].outcome)
             \/ IsOtherStatus(attempts[i].outcome)
             \/ IsUnparsable200(attempts[i].outcome) )
        => RetriedAfter(i)

\* C8 (amended): only rate-limit and timeout failures are retried up to the
\* attempt budget; an other-status or response-parse failure, like a 400 or a
\* 401, ends the call on the attempt where it occurs; in every case
\* generate_description then returns the template output.
C8_OnlyRateLimitAndTimeoutRetried ==
    /\ \A i \in DOMAIN attempts :
          attempts[i].posted =>
              /\ ( /\ i - 1 < retry_count - 1
                   /\ IsRateLimit(attempts[i].outcome) \/ IsTimeout(attempts[i].outcome) )
                 => RetriedAfter(i)
              /\ ( \/ IsOtherStatus(attempts[i].outcome)
                   \/ IsUnparsable200(attempts[i].outcome)
                   \/ IsBadRequest(attempts[i].outcome)
                   \/ IsAuth(attempts[i].outcome) )
                 => (~RetriedAfter(i) /\ Len(attempts) = i /\ pc # "groq")
    /\ (ByOrchestrator /\ Returned /\ attempts # <<>> /\ ~RemoteSucceeded)
          => PyEq(result, generate_fallback(property_data))

\* a 500 on the first of three attempts: no retry, template output
C8_Witness ==
    /\ ByOrchestrator /\ Returned
    /\ Len(attempts) = 1
    /\ attempts[1].posted /\ IsOtherStatus(attempts[1].outcome)
    /\ PyEq(result, generate_fallback(property_data))

\* ---------------------------------------------------------------------- C9
\* C9 (as claimed): the temperature sent with a request is at least 0.8 and
\* strictly less than 1.0.
C9_Original ==
    \A i \in DOMAIN attempts :
        attempts[i].posted => (attempts[i].temperature >= 80 /\ attempts[i].temperature < 100)

\* C9 (amended): the temperature sent with a request is at least 0.8 and at
\* most 1.0: it is 0.8 + 0.05 * variation_seed while that does not exceed 1.0
\* and 0.8 + 0.05 * (variation_seed mod 3) otherwise, and it is exactly 1.0
\* when variation_seed = 4 and only then.
C9_TemperatureAtMostOne ==
    \A i \in DOMAIN attempts :
        attempts[i].posted =>
            LET t == attempts[i].temperature
                linear == 80 + 5 * variation_seed
            IN /\ t >= 80 /\ t <= 100
               /\ (linear <= 100 => t = linear)
               /\ (linear > 100 => t = 80 + 5 * (variation_seed % 3) /\ t <= 90)
               /\ (t = 100 <=> variation_seed = 4)

\* a request went out with variation_seed 4 and temperature 1.0
C9_Witness ==
    /\ attempts # <<>>
    /\ attempts[1].posted
    /\ variation_seed = 4
    /\ attempts[1].temperature = 100

\* --------------------------------------------------------------------- C10
\* the shape of a content record
WellFormed(r) ==
    /\ r.t = "dict"
    /\ ContentKeys \subseteq DOMAIN r.v
    /\ Len(r.v.bullet_points) = 5
    /\ Len(r.v.seo_keywords) = 5

\* C10 (as claimed): every value returned by generate_description has the
\* seven keys, 5 bullet_points and 5 seo_keywords.
C10_Original == (ByOrchestrator /\ Returned) => WellFormed(result)

\* C10 (amended): a value that generate_description takes from the fallback
\* generator has the seven keys, 5 bullet_points and 5 seo_keywords; a value
\* it takes from the remote model is returned as parsed, unvalidated, and has
\* that shape exactly when the JSON the model sent has it.
C10_FallbackShapeOnly ==
    (ByOrchestrator /\ Returned) =>
        IF RemoteSucceeded /\ Truthy(ParsedAt(Len(attempts)))
        THEN WellFormed(result) <=> WellFormed(ParsedAt(Len(attempts)))
        ELSE WellFormed(result)

\* the remote attempt failed and the template record has the full shape
C10_Witness ==
    /\ ByOrchestrator /\ Returned
    /\ attempts # <<>>
    /\ ~RemoteSucceeded
    /\ WellFormed(result)
    /\ InfoTemplate \in {notices[k] : k \in DOMAIN notices}

\* --------------------------------------------------------------------- C15
\* the st.error notices of generate_with_groq
ErrorNotices ==
    {"error:rate_limit", "error:invalid_key", "error:bad_request", "error:api_error",
     "error:timeout", "error:invalid_json", "error:unexpected"}

\* an error notice was emitted before the template notice
ErrorBeforeTemplate ==
    \E k, j \in DOMAIN notices :
        k < j /\ notices[k] \in ErrorNotices /\ notices[j] = InfoTemplate

\* generate_description ran the remote path and returned the template output
FellBackAfterRemote ==
    /\ ByOrchestrator /\ Returned
    /\ attempts # <<>>
    /\ InfoTemplate \in {notices[k] : k \in DOMAIN notices}

\* C15 (as claimed): whenever the remote path was attempted and the template
\* output is returned, an error notice was emitted before the template notice.
C15_Original == FellBackAfterRemote => ErrorBeforeTemplate

\* C15 (amended): when the remote path was attempted, the API client signalled
\* a failure and the template output is returned, an error notice was emitted
\* before the template notice; when the client succeeded with a parsed value
\* that is false, the template output is returned with no error notice at all.
C15_CauseShownOnFailure ==
    FellBackAfterRemote =>
        IF RemoteSucceeded
        THEN \A k \in DOMAIN notices : notices[k] \notin ErrorNotices
        ELSE ErrorBeforeTemplate

\* three timeouts, then the timeout error, then the template notice
C15_Witness ==
    /\ FellBackAfterRemote
    /\ Len(attempts) = 3
    /\ \A i \in DOMAIN attempts : IsTimeout(attempts[i].outcome)
    /\ notices = <<"warning:timeout_retry", "warning:timeout_retry", "error:timeout",
                   InfoTemplate>>

\* --------------------------------------------------------------------- C18
\* a JSON text inside a language-tagged fence and inside a bare fence
TaggedFence(text) == <<Fence, JsonTag, "\n">> \o text \o <<"\n", Fence>>
BareFence(text) == <<Fence, "\n">> \o text \o <<"\n", Fence>>

\* C18: an HTTP 200 whose content is a valid JSON document inside a tagged or
\* a bare fence, or unfenced, makes the API client return the value of that
\* document on that attempt, with no sleep and no retry.
C18_FenceStripped ==
    \A i \in DOMAIN attempts : \A text \in JsonTexts :
        ( /\ attempts[i].posted
          /\ attempts[i].outcome.kind = "response"
          /\ attempts[i].outcome.status = 200
          /\ attempts[i].outcome.body = "json"
          /\ Strip(attempts[i].outcome.content) \in {TaggedFence(text), BareFence(text), text} )
        => /\ attempts[i].slept = 0
           /\ Len(attempts) = i
           /\ pc # "groq"
           /\ (caller = "generate_with_groq" => PyEq(result, TextValue(text)))

\* --------------------------------------------------------------------- C19
\* C19: for every retry_count n >= 0, generate_with_groq runs at most n
\* iterations and sends at most one request in each (exactly one when the try
\* block reaches the request, none when n = 0); an iteration after the first
\* follows a 429 or a timeout on a non-final attempt, and nothing is slept
\* after the final attempt.
C19_BoundedRequests ==
    /\ Len(attempts) <= retry_count
    /\ Cardinality({i \in DOMAIN attempts : attempts[i].posted}) <= retry_count
    /\ \A i \in DOMAIN attempts :
          /\ attempts[i].posted = ~LocalFault(property_data, api_key)
          /\ (i > 1) =>
                /\ IsRateLimit(attempts[i - 1].outcome) \/ IsTimeout(attempts[i - 1].outcome)
                /\ attempts[i - 1].posted
                /\ (i - 1) - 1 < retry_count - 1
          /\ (i = retry_count) => attempts[i].slept = 0
    /\ (pc = "groq" => attempt = Len(attempts) /\ attempt < retry_count)
    /\ (caller = "generate_with_groq" /\ retry_count = 0) =>
          (attempts = <<>> /\ pc # "groq" /\ PyEq(result, None))

\* a direct call with three attempts: 429, timeout, 429, then no content
C19_Witness ==
    /\ caller = "generate_with_groq" /\ Returned
    /\ retry_count = 3
    /\ Len(attempts) = 3
    /\ IsRateLimit(attempts[1].outcome)
    /\ IsTimeout(attempts[2].outcome)
    /\ IsRateLimit(attempts[3].outcome)
    /\ [i \in DOMAIN attempts |-> attempts[i].slept] = <<2, 2, 0>>
    /\ PyEq(result, None)

\* ------------------------------------------- calls of generate_fallback alone
\* the memo after generate_fallback returned value for record pd
Remember(pd, value) ==
    [p \in DOMAIN memo \cup {pd} |->
        IF p = pd
        THEN IF pd \in DOMAIN memo THEN [out |-> memo[pd].out, again |-> TRUE]
             ELSE [out |-> value, again |-> FALSE]
        ELSE memo[p]]

\* generate_fallback(property_data), called while variation index seed is in force
FallbackCall(pd, seed) ==
    /\ pc = "idle"
    /\ caller' = "generate_fallback"
    /\ property_data' = pd
    /\ variation_seed' = seed
    /\ IF HasRequiredFields(pd)
       THEN /\ pc' = "done"
            /\ result' = generate_fallback(pd)
            /\ memo' = Remember(pd, generate_fallback(pd))
       ELSE /\ pc' = "raised"
            /\ result' = None
            /\ UNCHANGED memo
    /\ UNCHANGED <<api_provider, api_key, retry_count, attempt, attempts, notices>>
    /\ UNCHANGED <<parser, session_state, ui>>

\* the caller of generate_fallback takes the value (or the KeyError)
FallbackReturn ==
    /\ pc \in {"done", "raised"}
    /\ caller = "generate_fallback"
    /\ ClearCall
    /\ UNCHANGED <<memo, parser, session_state, ui>>

NextFallback ==
    \/ \E pd \in PropertyRecords, seed \in Seeds : FallbackCall(pd, seed)
    \/ FallbackReturn

SpecFallback == Init /\ [][NextFallback]_vars

MaxRows == 2
MaxReads == 1

REQUIRED_FIELDS ==
    {"property_type", "bhk", "area_sqft", "city", "locality", "furnishing_status",
     "rent_amount", "deposit_amount", "available_from", "preferred_tenants"}

\* columns clean_and_process reads without their being required
OptionalColumns == {"landmark", "floor_no", "total_floors", "amenities", "rough_description"}

AllColumns == REQUIRED_FIELDS \cup OptionalColumns

\* cell values: strings are token sequences, floats are in tenths
NaN == [t |-> "nan", v |-> <<>>]
PyFloat(n) == [t |-> "float", v |-> n]
Timestamp(d) == [t |-> "timestamp", v |-> d]
PyDate(d) == [t |-> "date", v |-> d]

\* what raising looks like to the except clause of line 178: str(e)
Raised(msg) == [t |-> "raised", v |-> msg]

\* pd.notna(x)
NotNa(x) == x.t \notin {"nan", "None"}

\* str(x) as a token sequence
Str(x) ==
    CASE x.t = "str" -> x.v
      [] x.t = "nan" -> <<"nan">>
      [] x.t = "None" -> <<"None">>
      [] x.t = "int" -> <<ToString(x.v)>>
      [] x.t = "float" -> <<ToString(x.v \div 10) \o "." \o ToString(x.v % 10)>>
      [] x.t = "timestamp" -> <<x.v \o " 00:00:00">>
      [] x.t = "date" -> <<x.v>>

\* str.lower() on the vocabulary of the model, token by token
LowerToken(w) ==
    CASE w = "Flat" -> "flat"
      [] w = "VILLA" -> "villa"
      [] w = "Semi-Furnished" -> "semi-furnished"
      [] w = "Unfurnished" -> "unfurnished"
      [] OTHER -> w

Lower(s) == [i \in 1..Len(s) |-> LowerToken(s[i])]

\* the numerals float() accepts, with their value in tenths
Numerals == {"1000", "850.5", "30000", "50000", "3", "12"}

NumeralTenths(w) ==
    CASE w = "1000" -> 10000
      [] w = "850.5" -> 8505
      [] w = "30000" -> 300000
      [] w = "50000" -> 500000
      [] w = "3" -> 30
      [] w = "12" -> 120

\* float(x): surrounding whitespace is ignored, "nan" is a float
Float(x) ==
    CASE x.t = "int" -> PyFloat(x.v * 10)
      [] x.t = "float" -> x
      [] x.t = "nan" -> NaN
      [] x.t = "str" ->
            IF Len(Strip(x.v)) = 1 /\ Strip(x.v)[1] \in Numerals
            THEN PyFloat(NumeralTenths(Strip(x.v)[1]))
            ELSE IF Strip(x.v) = <<"nan">> THEN NaN
            ELSE Raised("could not convert string to float: " \o Join(x.v))
      [] x.t = "raised" -> x
      [] OTHER -> Raised("float() argument must be a string or a real number")

\* int(x) with NaN taken for zero
ToInt_NaNAsZero(x) ==
    CASE x.t = "float" -> PyInt(x.v \div 10)
      [] x.t = "nan" -> PyInt(0)
      [] OTHER -> x

\* int(x) of what float() gave: truncation, no integer for NaN
ToInt(x) ==
    CASE x.t = "float" -> PyInt(x.v \div 10)
      [] x.t = "nan" -> Raised("cannot convert float NaN to integer")
      [] OTHER -> x

\* the date strings pd.to_datetime parses, with the date str() prints
DateStrings == {"2024-01-15", "15 Jan 2024"}

to_datetime(s) ==
    IF Join(s) \in DateStrings THEN Timestamp("2024-01-15")
    ELSE Raised("Unknown datetime string format, unable to parse: " \o Join(s))

\* the dates datetime.now().date() can give at normalization time
Days == {PyDate("2025-11-28"), PyDate("2025-11-29")}

\* str.split(",") of a token sequence whose "," tokens are the separators
RECURSIVE Split(_, _)
Split(s, acc) ==
    IF s = <<>> THEN <<acc>>
    ELSE IF Head(s) = "," THEN <<acc>> \o Split(Tail(s), <<>>)
    ELSE Split(Tail(s), Append(acc, Head(s)))

\* ------------------------------------------------------------ rows and frames
GoodRow ==
    [property_type |-> PyStr(<<" ", "Flat">>), bhk |-> PyStr(<<"2 BHK", " ">>),
     area_sqft |-> PyStr(<<"850.5">>), city |-> PyStr(<<"Mumbai">>),
     locality |-> PyStr(<<"Andheri West">>), furnishing_status |-> PyStr(<<"Semi-Furnished">>),
     rent_amount |-> PyInt(30000), deposit_amount |-> PyStr(<<" ", "50000">>),
     available_from |-> PyStr(<<"15 Jan 2024">>), preferred_tenants |-> PyStr(<<"Family">>),
     landmark |-> PyStr(<<"Metro">>), floor_no |-> PyInt(3), total_floors |-> PyStr(<<"12">>),
     amenities |-> PyStr(<<"Lift", ",", " ", "Parking">>),
     rough_description |-> PyStr(<<" ", "Sea view", "\n">>)]

\* a spreadsheet row: numbers and a date value, blank optional cells
ExcelRow ==
    [property_type |-> PyStr(<<"VILLA">>), bhk |-> PyInt(3),
     area_sqft |-> PyFloat(10009), city |-> PyStr(<<"Pune">>),
     locality |-> PyStr(<<"Baner">>), furnishing_status |-> PyStr(<<"Unfurnished">>),
     rent_amount |-> PyFloat(300005), deposit_amount |-> PyInt(0),
     available_from |-> Timestamp("2024-06-30"), preferred_tenants |-> PyStr(<<"Any">>),
     landmark |-> NaN, floor_no |-> NaN, total_floors |-> NaN,
     amenities |-> NaN, rough_description |-> NaN]

\* the row r with cell c replaced by x
With(r, c, x) == [r EXCEPT ![c] = x]

GroundFloorRow == With(GoodRow, "floor_no", PyStr(<<"Ground">>))
TextAreaRow == With(ExcelRow, "area_sqft", PyStr(<<"large">>))
BlankAreaRow == With(GoodRow, "area_sqft", NaN)
BlankRentRow == With(ExcelRow, "rent_amount", NaN)
VagueDateRow == With(GoodRow, "available_from", PyStr(<<"soon">>))

Rows ==
    {GoodRow, ExcelRow, GroundFloorRow, TextAreaRow, BlankAreaRow, BlankRentRow,
     VagueDateRow}

\* the column sets of the frames: every column, the required ones only, one
\* required column missing, the date column missing
ColumnSets ==
    {AllColumns, REQUIRED_FIELDS, AllColumns \ {"city"}, AllColumns \ {"available_from"}}

RowSeqs == UNION {[1..n -> Rows] : n \in 0..MaxRows}

\* the frames read_file can return (default RangeIndex: row i has idx i - 1)
Frames == [columns : ColumnSets, rows : RowSeqs]

\* ------------------------------------------------------- clean_and_process
\* row[c]: a KeyError whose str() is the quoted column name
Subscript(cols, row, c) == IF c \in cols THEN row[c] ELSE Raised("'" \o c \o "'")

\* row.get(c, default)
RowGet(cols, row, c, default) == IF c \in cols THEN row[c] ELSE default

\* lines 151-152
Amenities(cols, row) ==
    IF "amenities" \in cols /\ NotNa(row["amenities"])
    THEN LET parts == Split(Str(row["amenities"]), <<>>)
         IN  [i \in 1..Len(parts) |-> Join(Strip(parts[i]))]
    ELSE <<>>

\* lines 155-159
AvailableFrom(cols, row, today) ==
    LET given == RowGet(cols, row, "available_from", today)
    IN  CASE given.t = "str" ->
                 IF to_datetime(given.v).t = "raised" THEN to_datetime(given.v)
                 ELSE PyDate(to_datetime(given.v).v)
          [] given.t = "timestamp" -> PyDate(given.v)
          [] OTHER -> given

\* lines 168-169: int(float(row[c])) if pd.notna(row.get(c)) else None
OptionalInt(cols, row, c) ==
    IF NotNa(RowGet(cols, row, c, None)) THEN ToInt(Float(Subscript(cols, row, c))) ELSE None

\* what the try block evaluates, in the order it evaluates it
Evaluated(cols, row, today) ==
    << AvailableFrom(cols, row, today),
       Subscript(cols, row, "property_type"),
       Subscript(cols, row, "bhk"),
       ToInt(Float(Subscript(cols, row, "area_sqft"))),
       Subscript(cols, row, "city"),
       Subscript(cols, row, "locality"),
       OptionalInt(cols, row, "floor_no"),
       OptionalInt(cols, row, "total_floors"),
       Subscript(cols, row, "furnishing_status"),
       Float(Subscript(cols, row, "rent_amount")),
       Float(Subscript(cols, row, "deposit_amount")),
       Subscript(cols, row, "preferred_tenants") >>

\* the first exception of the try block, None when it raises nothing
RECURSIVE FirstRaised(_)
FirstRaised(values) ==
    IF values = <<>> THEN None
    ELSE IF Head(values).t = "raised" THEN Head(values)
    ELSE FirstRaised(Tail(values))

\* lines 161-177: the dict appended for a row whose try block raises nothing
Normalized(cols, row, today) ==
    [property_type |-> Join(Strip(Lower(Str(row["property_type"])))),
     bhk |-> Join(Strip(Str(row["bhk"]))),
     area_sqft |-> ToInt(Float(row["area_sqft"])).v,
     city |-> Join(Strip(Str(row["city"]))),
     locality |-> Join(Strip(Str(row["locality"]))),
     landmark |-> Join(Strip(Str(RowGet(cols, row, "landmark", PyStr(<<>>))))),
     floor_no |-> OptionalInt(cols, row, "floor_no"),
     total_floors |-> OptionalInt(cols, row, "total_floors"),
     furnishing_status |-> Join(Strip(Lower(Str(row["furnishing_status"])))),
     rent_amount |-> Float(row["rent_amount"]),
     deposit_amount |-> Float(row["deposit_amount"]),
     available_from |-> Join(Str(AvailableFrom(cols, row, today))),
     preferred_tenants |-> Join(Strip(Str(row["preferred_tenants"]))),
     amenities |-> Amenities(cols, row),
     rough_description |-> Strip(Str(RowGet(cols, row, "rough_description", PyStr(<<>>))))]

\* line 179: the message as its parts, the row tag first
RowError(idx, e) == <<"Row " \o ToString(idx + 2), ": ", e.v>>

\* lines 146-181 with the loop left at the first row that raises
RECURSIVE Loop_StopAtBadRow(_, _, _, _)
Loop_StopAtBadRow(df, idx, today, acc) ==
    IF idx >= Len(df.rows) THEN acc
    ELSE LET row == df.rows[idx + 1]
             e == FirstRaised(Evaluated(df.columns, row, today))
         IN  IF e.t = "raised"
             THEN [acc EXCEPT !.errors = Append(@, RowError(idx, e))]
             ELSE Loop_StopAtBadRow(df, idx + 1, today,
                      [acc EXCEPT !.properties = Append(@, Normalized(df.columns, row, today)),
                                  !.origin = Append(@, idx)])

\* lines 146-181: the loop from row idx on; acc holds properties, self.errors
\* and, for each record of properties, the idx of the row it came from
RECURSIVE Loop(_, _, _, _)
Loop(df, idx, today, acc) ==
    IF idx >= Len(df.rows) THEN acc
    ELSE LET row == df.rows[idx + 1]
             e == FirstRaised(Evaluated(df.columns, row, today))
         IN  IF e.t = "raised"
             THEN Loop(df, idx + 1, today,
                      [acc EXCEPT !.errors = Append(@, RowError(idx, e))])
             ELSE Loop(df, idx + 1, today,
                      [acc EXCEPT !.properties = Append(@, Normalized(df.columns, row, today)),
                                  !.origin = Append(@, idx)])

\* parser = InteractiveParser()
Construct ==
    /\ parser # NewParser
    /\ parser' = NewParser
    /\ UNCHANGED <<pc, caller, property_data, api_provider, api_key, variation_seed,
                   retry_count, attempt, attempts, notices, result>>
    /\ UNCHANGED <<memo, session_state, ui>>

\* parser.read_file(f) when the reader raises (lines 135-137); when it does
\* not, the frame it returns is the argument of clean_and_process
ReadFileFails ==
    /\ parser.last # "clean_and_process"
    /\ parser.reads < MaxReads
    /\ parser' = [parser EXCEPT !.errors = Append(@, <<"Error", ": ", "No columns to parse from file">>),
                                !.reads = @ + 1,
                                !.last = "read_file"]
    /\ UNCHANGED <<pc, caller, property_data, api_provider, api_key, variation_seed,
                   retry_count, attempt, attempts, notices, result>>
    /\ UNCHANGED <<memo, session_state, ui>>

\* the dates line 155 can read from the clock; the date read is used only
\* when the frame has no available_from column
Clock(df) ==
    IF "available_from" \in df.columns THEN {PyDate("2025-11-28")} ELSE Days

\* parser.clean_and_process(df); a parser object processes one frame, the
\* next upload runs on a new parser
CleanAndProcess(df, today) ==
    /\ parser.last # "clean_and_process"
    /\ today \in Clock(df)
    /\ LET out == Loop(df, 0, today,
                      [properties |-> <<>>, errors |-> parser.errors, origin |-> <<>>])
       IN  parser' = [errors |-> out.errors, properties |-> out.properties,
                      origin |-> out.origin, df |-> df, before |-> parser.errors,
                      reads |-> parser.reads, last |-> "clean_and_process"]
    /\ UNCHANGED <<pc, caller, property_data, api_provider, api_key, variation_seed,
                   retry_count, attempt, attempts, notices, result>>
    /\ UNCHANGED <<memo, session_state, ui>>

NextParser ==
    \/ Construct
    \/ ReadFileFails
    \/ \E df \in Frames, today \in Days : CleanAndProcess(df, today)

SpecParser == Init /\ [][NextParser]_vars

\* ------------------------------------------------------- views of the parser
\* the parser has just returned from clean_and_process
Processed == parser.last = "clean_and_process"

\* the errors the last clean_and_process appended
NewErrors == SubSeq(parser.errors, Len(parser.before) + 1, Len(parser.errors))

\* the number of records / of new errors that belong to row idx of the frame
RecordsOf(idx) == Cardinality({i \in 1..Len(parser.origin) : parser.origin[i] = idx})
ErrorsOf(idx) ==
    Cardinality({i \in 1..Len(NewErrors) : NewErrors[i][1] = "Row " \o ToString(idx + 2)})

RowIndices == 0..(Len(parser.df.rows) - 1)

\* a cell that holds a number or the text of one
Numeric(x) ==
    \/ x.t \in {"int", "float"}
    \/ x.t = "str" /\ Len(Strip(x.v)) = 1 /\ Strip(x.v)[1] \in Numerals

\* a present, non-blank cell of column c that is not a number
BadNumber(cols, row, c) == c \in cols /\ NotNa(row[c]) /\ ~Numeric(row[c])

\* an available_from cell that is a string pandas cannot parse
BadDate(cols, row) ==
    /\ "available_from" \in cols
    /\ row["available_from"].t = "str"
    /\ Join(row["available_from"].v) \notin DateStrings

\* --------------------------------------------------------------------- C12
\* C12 as stated: a row of a frame that lacks a required column yields no
\* record and exactly one error tagged with the row's position; a row that
\* has all required columns yields exactly one record and no error.
C12_Original ==
    Processed =>
        \A idx \in RowIndices :
            IF REQUIRED_FIELDS \subseteq parser.df.columns
            THEN RecordsOf(idx) = 1 /\ ErrorsOf(idx) = 0
            ELSE RecordsOf(idx) = 0 /\ ErrorsOf(idx) = 1

\* the rows the try block of lines 147-177 rejects
Rejected(cols, row) ==
    \/ (REQUIRED_FIELDS \ {"available_from"}) \ cols # {}
    \/ BadDate(cols, row)
    \/ "area_sqft" \in cols /\ ~Numeric(row["area_sqft"])
    \/ BadNumber(cols, row, "rent_amount")
    \/ BadNumber(cols, row, "deposit_amount")
    \/ BadNumber(cols, row, "floor_no")
    \/ BadNumber(cols, row, "total_floors")

\* C12 (amended): every row yields either one record and no error or no
\* record and one error tagged Row idx+2; it yields the error exactly when a
\* required column other than available_from is missing, area_sqft is blank
\* or not a number, rent_amount, deposit_amount, floor_no or total_floors is
\* present, not blank and not a number, or available_from is a string that is
\* not a date; a missing available_from column gives a record dated today.
C12_RecordOrError ==
    Processed =>
        \A idx \in RowIndices :
            IF Rejected(parser.df.columns, parser.df.rows[idx + 1])
            THEN RecordsOf(idx) = 0 /\ ErrorsOf(idx) = 1
            ELSE RecordsOf(idx) = 1 /\ ErrorsOf(idx) = 0

\* a frame without the available_from column whose first row gave a record
\* dated by the clock and whose second row, a text area, gave the error
C12_Witness ==
    /\ Processed
    /\ parser.df.columns = AllColumns \ {"available_from"}
    /\ parser.df.rows = <<GoodRow, TextAreaRow>>
    /\ Len(parser.properties) = 1
    /\ parser.properties[1].available_from = "2025-11-29"
    /\ RecordsOf(0) = 1 /\ ErrorsOf(1) = 1

\* --------------------------------------------------------------------- C13
\* C13: a present, non-numeric floor_no or total_floors does not abort the
\* row: the row yields its record, with that field None, and no error; a
\* required numeric field (area_sqft, rent_amount, deposit_amount) that does
\* not convert aborts the row with an error.
C13_OptionalFailureTolerated ==
    Processed =>
        \A idx \in RowIndices :
            LET cols == parser.df.columns
                row == parser.df.rows[idx + 1]
                requiredFails ==
                    \/ (REQUIRED_FIELDS \ {"available_from"}) \ cols # {}
                    \/ BadDate(cols, row)
                    \/ "area_sqft" \in cols /\ ~Numeric(row["area_sqft"])
                    \/ BadNumber(cols, row, "rent_amount")
                    \/ BadNumber(cols, row, "deposit_amount")
            IN  /\ requiredFails => (RecordsOf(idx) = 0 /\ ErrorsOf(idx) = 1)
                /\ (~requiredFails /\ BadNumber(cols, row, "floor_no")) =>
                       /\ RecordsOf(idx) = 1 /\ ErrorsOf(idx) = 0
                       /\ \E i \in 1..Len(parser.origin) :
                              /\ parser.origin[i] = idx
                              /\ parser.properties[i].floor_no = None
                /\ (~requiredFails /\ BadNumber(cols, row, "total_floors")) =>
                       /\ RecordsOf(idx) = 1 /\ ErrorsOf(idx) = 0
                       /\ \E i \in 1..Len(parser.origin) :
                              /\ parser.origin[i] = idx
                              /\ parser.properties[i].total_floors = None

\* --------------------------------------------------------------------- C14
\* C14: clean_and_process visits every row of the frame: records returned
\* plus errors appended equals the number of rows, every row has its record
\* or its error whatever came before it, the records are in the order of
\* their rows, and the errors the parser already held are still there, in
\* front of the new ones.
C14_BatchNeverAborted ==
    Processed =>
        /\ Len(parser.properties) + Len(NewErrors) = Len(parser.df.rows)
        /\ Len(parser.origin) = Len(parser.properties)
        /\ \A idx \in RowIndices : RecordsOf(idx) + ErrorsOf(idx) >= 1
        /\ \A i, j \in 1..Len(parser.origin) : i < j => parser.origin[i] < parser.origin[j]
        /\ Len(parser.errors) >= Len(parser.before)
        /\ SubSeq(parser.errors, 1, Len(parser.before)) = parser.before

\* a parser that held an error processed a frame whose first row is bad and
\* whose second row is good
C14_Witness ==
    /\ Processed
    /\ parser.before # <<>>
    /\ parser.df.columns = AllColumns
    /\ parser.df.rows = <<VagueDateRow, ExcelRow>>
    /\ Len(parser.errors) = Len(parser.before) + 1
    /\ parser.origin = <<1>>
    /\ parser.properties[1].city = "Pune"

\* ------------------------------------------------- the single-property page
\* what the form of lines 775-791 can hold: two filled forms, one without a
\* city, one without a locality
Forms ==
    {FormRecord, NotesRecord, [FormRecord EXCEPT !.city = ""],
     [NotesRecord EXCEPT !.locality = ""]}

\* what the sidebar of lines 563-575 passes on: provider and api_key
Sidebar ==
    {[provider |-> TemplateProvider, key |-> None],
     [provider |-> GroqProvider, key |-> PyStr(<<>>)],
     [provider |-> GroqProvider, key |-> PyStr(<<" ", "gsk_1", "\n">>)]}

\* the outcomes of a request made for the page
PageOutcomes ==
    {Response(200, "json", <<GoodDoc>>), Response(200, "json", <<PartialDoc>>),
     Response(200, "json", <<EmptyObjectDoc>>), Response(429, "json", <<>>),
     Response(401, "json", <<>>), TimeoutOutcome}

\* line 805 testing the city alone
Valid_CityOnly(city, locality) == city # ""

\* line 805: both required text inputs are filled
Valid(city, locality) == city # "" /\ locality # ""

\* lines 811-814 with Generate leaving the count as it is
NextCount_KeepOnGenerate(regenerate_clicked, count) ==
    IF regenerate_clicked THEN count + 1 ELSE count

\* lines 811-814
NextCount(regenerate_clicked, count) == IF regenerate_clicked THEN count + 1 ELSE 0

\* line 821 leaving variation_seed at its default
SeedArgument_Default(generation_count) == 0

\* line 821: variation_seed=st.session_state.generation_count
SeedArgument(generation_count) == generation_count

\* lines 824-826: the session once generate_description has returned value
Stored(session, value) ==
    IF Truthy(value) THEN [session EXCEPT !.generated_result = value] ELSE session

\* a click on Generate or Regenerate (lines 797-826), up to the end of the
\* handler or to the first request of the generation
Click(btn, form, side) ==
    /\ pc = "idle"
    /\ btn = "regenerate" => session_state.generated_result # None
    /\ btn = "regenerate" => session_state.generation_count < MaxSeed
    /\ memo' = memo /\ parser' = parser
    /\ IF ~Valid(form.city, form.locality)
       THEN /\ ui' = [ui EXCEPT !.click = btn, !.city = form.city,
                                !.locality = form.locality, !.status = "rejected"]
            /\ UNCHANGED session_state
            /\ UNCHANGED callVars
       ELSE LET count == NextCount(btn = "regenerate", session_state.generation_count)
                seed == SeedArgument(count)
                clicked == [session_state EXCEPT !.property_data = form,
                                                 !.generation_count = count]
            IN  /\ StartDescription(form, side.provider, side.key, seed)
                /\ session_state' = IF pc' = "done" THEN Stored(clicked, result') ELSE clicked
                /\ ui' = [click |-> btn, city |-> form.city, locality |-> form.locality,
                          status |-> IF pc' = "groq" THEN "generating" ELSE "shown",
                          used |-> IF btn = "regenerate"
                                   THEN Append(ui.used, VariationIndex(seed))
                                   ELSE <<VariationIndex(seed)>>,
                          made |-> IF pc' = "done" /\ Truthy(result')
                                   THEN [seed |-> seed, pd |-> form] ELSE ui.made]

\* one iteration of the loop inside the spinner of lines 816-822; when the
\* call returns the handler goes on to lines 824-826
PageAttempt(o) ==
    /\ ui.status = "generating"
    /\ RequestStep(o)
    /\ session_state' = IF pc' = "done" THEN Stored(session_state, result') ELSE session_state
    /\ ui' = [ui EXCEPT !.status = IF pc' = "groq" THEN "generating" ELSE "shown",
                        !.made = IF pc' = "done" /\ Truthy(result')
                                 THEN [seed |-> variation_seed, pd |-> property_data]
                                 ELSE @]
    /\ UNCHANGED <<memo, parser>>

NextUI ==
    \/ \E btn \in {"generate", "regenerate"}, form \in Forms, side \in Sidebar :
          Click(btn, form, side)
    \/ \E o \in PageOutcomes : PageAttempt(o)
    \/ ReturnToCaller

SpecUI == Init /\ [][NextUI]_vars

\* lines 842-858 run without raising: the stored result has the keys shown
Displayable(r) == r.t = "dict" /\ ContentKeys \subseteq DOMAIN r.v

\* the download button of lines 866-878 is rendered
ExportOffered ==
    /\ pc # "groq"
    /\ Truthy(session_state.generated_result)
    /\ Displayable(session_state.generated_result)

\* lines 866-870: the dict json.dumps serializes
Export ==
    [property_details |-> session_state.property_data,
     generated_content |-> session_state.generated_result,
     generation_version |-> session_state.generation_count + 1]

\* --------------------------------------------------------------------- C16
\* C16: Generate sets generation_count to 0 and every Regenerate adds 1 to
\* it; the k-th generation since the last Generate uses the preset at index
\* (k - 1) mod 5, which is generation_count mod 5, so five generations use
\* the five presets in list order and the sixth uses the first again; every
\* request of the generation under way carries that preset.
C16_PresetFollowsCount ==
    ui.used # <<>> =>
        /\ Len(ui.used) = session_state.generation_count + 1
        /\ \A i \in 1..Len(ui.used) : ui.used[i] = (i - 1) % 5
        /\ \A k \in 1..Len(attempts) :
              attempts[k].variation = session_state.generation_count % 5

\* the sixth generation after a Generate click has sent a request with the
\* first preset
C16_Witness ==
    /\ Len(ui.used) = 6
    /\ ui.used = <<0, 1, 2, 3, 4, 0>>
    /\ session_state.generation_count = 5
    /\ ui.click = "regenerate"
    /\ attempts # <<>>
    /\ attempts[1].posted
    /\ attempts[1].variation = 0

\* --------------------------------------------------------------------- C17
\* C17: whenever the download button is offered, the exported
\* generation_version is at least 1 and is 1 plus the variation seed passed
\* to the generation that produced the exported content, and the exported
\* property_details is the record passed to that generation.
C17_ExportMatchesGeneration ==
    ExportOffered =>
        /\ Export.generation_version >= 1
        /\ ui.made # None
        /\ Export.generation_version = 1 + ui.made.seed
        /\ Export.property_details = ui.made.pd

\* the export of a remote result produced by the second Regenerate
C17_Witness ==
    /\ ExportOffered
    /\ PyEq(Export.generated_content, GoodValue)
    /\ Export.generation_version = 3
    /\ Export.property_details = NotesRecord
    /\ ui.made.seed = 2

\* --------------------------------------------------------------------- C20
\* C20: a click on Generate or Regenerate with an empty city or an empty
\* locality is rejected with the error and changes nothing else: no call is
\* started, no request is sent, and generation_count, property_data and
\* generated_result of the session keep their values.
C20_EmptyClickRejected ==
    [][(/\ ui' # ui
        /\ ui'.click \in {"generate", "regenerate"}
        /\ (ui'.city = "" \/ ui'.locality = ""))
       => (/\ ui'.status = "rejected"
           /\ session_state' = session_state
           /\ UNCHANGED callVars)]_vars

\* a rejected Regenerate click on a page that shows the result of a second
\* generation
C20_Witness ==
    /\ ui.status = "rejected"
    /\ ui.click = "regenerate"
    /\ ui.locality = ""
    /\ pc = "idle"
    /\ session_state.generation_count = 1
    /\ session_state.generated_result # None
    /\ session_state.property_data = FormRecord

====
